---- MODULE Spec2Model ----
(***************************************************************************)
(* The asynchronous quality-assessment pipeline of                         *)
(* backend/app/services/assessment_service.py as a state machine.          *)
(*                                                                         *)
(* The service runs on one asyncio event loop.  A coroutine runs without   *)
(* interruption between two awaits, so every action below is one "moment": *)
(* either the effect of one awaited database operation (a read or a        *)
(* commit) or the synchronous code that touches the in-process table       *)
(* running_tasks.  Decisions that depend only on a value the coroutine has *)
(* read are taken in the action of the read.  Coroutines interleave freely *)
(* between moments.                                                        *)
(*                                                                         *)
(* Each coroutine works on its own SQLAlchemy session: a commit writes     *)
(* only the columns whose new value differs from the value the session     *)
(* loaded (or last wrote), whatever the row holds by then.                 *)
(*                                                                         *)
(* Task.cancel() throws CancelledError into the task at the await it is    *)
(* suspended at; the commit that await was waiting for is taken not to     *)
(* land afterwards, so a cancelled task writes no row from then on.        *)
(***************************************************************************)
EXTENDS Integers, Sequences, FiniteSets, TLC

\* ---- bounds of the model ------------------------------------------------
MaxJobs == 3        \* assessments ever created
MaxCalls == 2       \* start / start-batch / cancel requests that are accepted
MaxBatches == 1     \* batches ever created
MaxBatchSize == 2   \* distorted ids handed to one create_batch_assessment
TotalFrames == 2    \* frame_count probed for the reference video
MaxFrame == 1       \* largest frame=<N> the comparison process reports
max_concurrent == 1 \* settings.max_concurrent_tasks (an integer >= 1)
MaxRows == 4        \* rows of the batch whose status is asked for
MaxLines == 3       \* lines the comparison process writes to its stdout
MaxParsed == 3      \* frames in the log the parser reads
MaxStored == 5      \* frames in a stored frame list asked for problem frames
MaxSamples == 20    \* frames in a stored frame list asked for statistics

VARIABLES
  db,             \* the assessments table: id -> row
  files,          \* ids whose frame_data.json has been written
  running_tasks,  \* AssessmentService.running_tasks: id -> task (0: no entry)
  tasks,          \* the unfinished asyncio tasks running _run_assessment
  calls,          \* service calls suspended at an await
  ctr,            \* counters: rows, batches, accepted requests
  raised,         \* the exception the step just taken raised to its caller
  arg,            \* the input of a computation that touches no row
  ret             \* what that computation returned

vars == <<db, files, running_tasks, tasks, calls, ctr, raised, arg, ret>>

\* The service's own state, and the input and result of the computations that
\* read it (the parser, the statistics, the batch status).
service == <<db, files, running_tasks, tasks, calls, ctr, raised>>
io == <<arg, ret>>
None == [none |-> TRUE]     \* Python's None, as a returned value
Unset == [unset |-> TRUE]   \* no computation has been asked for

JobIds == 1..MaxJobs
Videos == {1, 2}          \* the rows of the videos table

PENDING == "pending"
RUNNING == "running"
COMPLETED == "completed"
FAILED == "failed"
CANCELLED == "cancelled"
TaskStatus == {PENDING, RUNNING, COMPLETED, FAILED, CANCELLED}
Terminal == {COMPLETED, FAILED, CANCELLED}

Min(a, b) == IF a <= b THEN a ELSE b

\* A row of the assessments table.  Nullable columns whose value plays no
\* part are kept as "is it non-null": error_message, the aggregate scores
\* (vmaf_score, vmaf_min, vmaf_max, ssim_score, psnr_score are written
\* together), frame_data_path, completed_at.  started_at is the number of
\* times the column has been stamped, 0 when null.
NoRow ==
  [exists |-> FALSE, batch_id |-> 0, reference_video_id |-> 0,
   distorted_video_id |-> 0, status |-> PENDING, progress |-> 0,
   current_frame |-> 0, total_frames |-> 0, error_message |-> FALSE,
   scores |-> FALSE, frame_data_path |-> FALSE, started_at |-> 0,
   completed_at |-> FALSE]

frame_count(v) == TotalFrames

Assessment(batch, ref, dist) ==
  [NoRow EXCEPT !.exists = TRUE, !.batch_id = batch,
                !.reference_video_id = ref, !.distorted_video_id = dist,
                !.total_frames = frame_count(ref)]

NoRaise == [op |-> "none", err |-> "none"]
Raise(op, err) == [op |-> op, err |-> err]

\* ---- the running-task table ---------------------------------------------

\* t.done(): a finished task is no longer in tasks.
done(t) == t \notin DOMAIN tasks

\* len([t for t in self.running_tasks.values() if not t.done()])
running_count ==
  Cardinality({j \in JobIds : running_tasks[j] # 0 /\ ~done(running_tasks[j])})

RemoveTask(ts, t) == [x \in DOMAIN ts \ {t} |-> ts[x]]

\* Names for a new task object and a new call: the least number that names
\* no unfinished task, table entry or suspended call.
NewTaskId ==
  LET used == DOMAIN tasks \cup {running_tasks[j] : j \in JobIds}
  IN CHOOSE t \in 1..(Cardinality(used) + 1) :
       t \notin used /\ \A u \in 1..(t - 1) : u \in used

NewCallId ==
  LET used == {c.id : c \in calls}
  IN CHOOSE i \in 1..(Cardinality(used) + 1) :
       i \notin used /\ \A u \in 1..(i - 1) : u \in used

\* A suspended call of the service.  A call that raises, or returns, leaves
\* calls.
Call(id, op, via, job, pc, owner) ==
  [id |-> id, op |-> op, via |-> via, job |-> job, pc |-> pc, owner |-> owner]

Goto(c, pc) == (calls \ {c}) \cup {[c EXCEPT !.pc = pc]}

\* A call returns or raises: it leaves calls, and the task that awaited it
\* in its finally block (owner # 0) ends with it.
EndCall(c) ==
  /\ calls' = calls \ {c}
  /\ tasks' = IF c.owner # 0 THEN RemoveTask(tasks, c.owner) ELSE tasks

Init ==
  /\ db = [j \in JobIds |-> NoRow]
  /\ files = {}
  /\ running_tasks = [j \in JobIds |-> 0]
  /\ tasks = << >>
  /\ calls = {}
  /\ ctr = [job |-> 0, batch |-> 0, api |-> 0]
  /\ raised = NoRaise
  /\ arg = Unset
  /\ ret = Unset

\* ---- create_assessment ---------------------------------------------------

create_assessment(ref, dist) ==
  IF ref \notin Videos \/ dist \notin Videos
  THEN /\ raised' = Raise("create", "NotFound")
       /\ UNCHANGED <<db, files, running_tasks, tasks, calls, ctr>>
  ELSE /\ raised' = NoRaise
       /\ ctr.job < MaxJobs
       /\ db' = [db EXCEPT ![ctr.job + 1] = Assessment(0, ref, dist)]
       /\ ctr' = [ctr EXCEPT !.job = @ + 1]
       /\ UNCHANGED <<files, running_tasks, tasks, calls>>

\* ---- start_assessment ----------------------------------------------------

\* A request calls start_assessment.
start_assessment(job) ==
  /\ raised' = NoRaise
  /\ calls' = calls \cup {Call(NewCallId, "start", "api", job, "check", 0)}
  /\ ctr' = [ctr EXCEPT !.api = @ + 1]
  /\ UNCHANGED <<db, files, running_tasks, tasks>>

\* A variant of the check below that also counts the start calls that have
\* passed the check and not yet registered their task; C27 tells it from the
\* code.
start_assessment_check_reserving(c) ==
  /\ c.op = "start" /\ c.pc = "check"
  /\ UNCHANGED <<db, files, running_tasks, ctr>>
  /\ IF running_count + Cardinality({d \in calls : d.op = "start" /\ d.pc # "check"})
          >= max_concurrent
     THEN /\ raised' = Raise("start", "ConcurrencyLimitExceeded")
          /\ EndCall(c)
     ELSE /\ raised' = NoRaise
          /\ calls' = Goto(c, "get")
          /\ UNCHANGED tasks

\* The concurrency check, before the first await of start_assessment.
start_assessment_check(c) ==
  /\ c.op = "start" /\ c.pc = "check"
  /\ UNCHANGED <<db, files, running_tasks, ctr>>
  /\ IF running_count >= max_concurrent
     THEN /\ raised' = Raise("start", "ConcurrencyLimitExceeded")
          /\ EndCall(c)
     ELSE /\ raised' = NoRaise
          /\ calls' = Goto(c, "get")
          /\ UNCHANGED tasks

\* The object session.get returns.  A request's session is new and reads the
\* row.  start_batch_assessment and _trigger_next_batch_task hand over the
\* session their query has just loaded the job into, as a pending row: the
\* session returns that object without reading the row again.
session_get(c) ==
  IF c.via = "api" THEN db[c.job]
  ELSE [db[c.job] EXCEPT !.exists = TRUE, !.status = PENDING]

\* A variant of the step below that marks the job running before it looks at
\* the row's status; C9 tells it from the code.
start_assessment_get_marking(c) ==
  /\ c.op = "start" /\ c.pc = "get"
  /\ UNCHANGED <<files, running_tasks, ctr>>
  /\ IF ~session_get(c).exists
     THEN /\ raised' = Raise("start", "NotFound")
          /\ db' = db
          /\ EndCall(c)
     ELSE IF session_get(c).status = RUNNING
     THEN /\ raised' = Raise("start", "InvalidState")
          /\ db' = [db EXCEPT ![c.job].started_at = @ + 1]
          /\ EndCall(c)
     ELSE /\ raised' = NoRaise
          /\ db' = db
          /\ calls' = Goto(c, "commit")
          /\ UNCHANGED tasks

\* await session.get(Assessment, assessment_id) and the two checks on it.
start_assessment_get(c) ==
  /\ c.op = "start" /\ c.pc = "get"
  /\ UNCHANGED <<db, files, running_tasks, ctr>>
  /\ IF ~session_get(c).exists
     THEN /\ raised' = Raise("start", "NotFound")
          /\ EndCall(c)
     ELSE IF session_get(c).status = RUNNING
     THEN /\ raised' = Raise("start", "InvalidState")
          /\ EndCall(c)
     ELSE /\ raised' = NoRaise
          /\ calls' = Goto(c, "commit")
          /\ UNCHANGED tasks

\* status = RUNNING, started_at = utcnow(); await session.commit()
\* (started_at counts the stamps: every start writes a new value)
\* (the UPDATE of a row that has been deleted meanwhile matches no row, and
\* the commit raises)
start_assessment_commit(c) ==
  /\ c.op = "start" /\ c.pc = "commit"
  /\ UNCHANGED <<files, running_tasks, ctr>>
  /\ IF ~db[c.job].exists
     THEN /\ raised' = Raise("start", "StaleData")
          /\ db' = db
          /\ EndCall(c)
     ELSE /\ raised' = NoRaise
          /\ db' = [db EXCEPT ![c.job].status = RUNNING, ![c.job].started_at = @ + 1]
          /\ calls' = Goto(c, "register")
          /\ UNCHANGED tasks

\* A task that has been created and has not run yet.
NewTask(job) ==
  [job |-> job, pc |-> "created", batch_id |-> 0, status |-> PENDING,
   progress |-> 0, current_frame |-> 0, last_reported_frame |-> -1]

\* task = asyncio.create_task(...); self.running_tasks[assessment_id] = task
start_assessment_register(c) ==
  /\ raised' = NoRaise
  /\ c.op = "start" /\ c.pc = "register"
  /\ LET t == NewTaskId
         ts == IF c.owner # 0 THEN RemoveTask(tasks, c.owner) ELSE tasks
     IN /\ tasks' = (t :> NewTask(c.job)) @@ ts
        /\ running_tasks' = [running_tasks EXCEPT ![c.job] = t]
  /\ calls' = calls \ {c}
  /\ UNCHANGED <<db, files, ctr>>

\* ---- cancel_assessment ---------------------------------------------------

\* Task.cancel() on task t.  A task that has not run yet ends without running
\* its body (started = FALSE); a task suspended inside the try block has
\* CancelledError thrown at its await and goes to its finally block (a task
\* still waiting for its first session.get has batch_id None); a task awaiting
\* the hook in its finally block ends there, with the start call it awaits.
cancel_tasks(t, started) ==
  IF done(t) THEN tasks
  ELSE IF tasks[t].pc = "created" /\ ~started THEN RemoveTask(tasks, t)
  ELSE IF tasks[t].pc \in {"created", "loop", "commit", "finally"}
  THEN [tasks EXCEPT ![t].pc = "finally"]
  ELSE RemoveTask(tasks, t)

cancel_calls(t) ==
  IF done(t) THEN calls ELSE {c \in calls : c.owner # t}

\* A request calls cancel_assessment.
cancel_assessment(job) ==
  /\ raised' = NoRaise
  /\ ctr.api < MaxCalls
  /\ calls' = calls \cup {Call(NewCallId, "cancel", "api", job, "get", 0)}
  /\ ctr' = [ctr EXCEPT !.api = @ + 1]
  /\ UNCHANGED <<db, files, running_tasks, tasks>>

\* A variant of the step below that refuses only the jobs that have ended, and
\* so cancels a pending job; C10 tells it from the code.
cancel_assessment_get_lenient(c) ==
  /\ c.op = "cancel" /\ c.pc = "get"
  /\ UNCHANGED <<db, files, running_tasks, tasks, ctr>>
  /\ IF ~db[c.job].exists
     THEN /\ raised' = Raise("cancel", "NotFound")
          /\ calls' = calls \ {c}
     ELSE IF db[c.job].status \in Terminal
     THEN /\ raised' = Raise("cancel", "InvalidState")
          /\ calls' = calls \ {c}
     ELSE /\ raised' = NoRaise
          /\ calls' = Goto(c, "signal")

\* await session.get(Assessment, assessment_id) and the two checks on it.
cancel_assessment_get(c) ==
  /\ c.op = "cancel" /\ c.pc = "get"
  /\ UNCHANGED <<db, files, running_tasks, tasks, ctr>>
  /\ IF ~db[c.job].exists
     THEN /\ raised' = Raise("cancel", "NotFound")
          /\ calls' = calls \ {c}
     ELSE IF db[c.job].status # RUNNING
     THEN /\ raised' = Raise("cancel", "InvalidState")
          /\ calls' = calls \ {c}
     ELSE /\ raised' = NoRaise
          /\ calls' = Goto(c, "signal")

\* if assessment_id in self.running_tasks: cancel the task, delete the entry
cancel_assessment_signal(c, started) ==
  /\ raised' = NoRaise
  /\ c.op = "cancel" /\ c.pc = "signal"
  /\ LET t == running_tasks[c.job]
     IN IF t = 0
        THEN /\ started
             /\ tasks' = tasks
             /\ calls' = Goto(c, "commit")
        ELSE /\ started \/ (~done(t) /\ tasks[t].pc = "created")
             /\ tasks' = cancel_tasks(t, started)
             /\ calls' = (cancel_calls(t) \ {c}) \cup {[c EXCEPT !.pc = "commit"]}
  /\ running_tasks' = [running_tasks EXCEPT ![c.job] = 0]
  /\ UNCHANGED <<db, files, ctr>>

\* assessment.status = CANCELLED; await session.commit()
cancel_assessment_commit(c) ==
  /\ raised' = NoRaise
  /\ c.op = "cancel" /\ c.pc = "commit"
  /\ db' = [db EXCEPT ![c.job].status = CANCELLED]
  /\ calls' = calls \ {c}
  /\ UNCHANGED <<files, running_tasks, tasks, ctr>>

\* ---- batches -------------------------------------------------------------

Range(s) == {s[i] : i \in DOMAIN s}

\* A variant of create_batch_assessment that adds the row of each distorted
\* id as it checks it, and so has written the rows before the first missing
\* id when it raises; C13 tells it from the code.
create_batch_assessment_stepwise(ref, dists) ==
  IF ref \notin Videos
  THEN /\ raised' = Raise("create_batch", "NotFound")
       /\ UNCHANGED <<db, files, running_tasks, tasks, calls, ctr>>
  ELSE LET bad == {i \in DOMAIN dists : dists[i] \notin Videos}
           n == IF bad = {} THEN Len(dists)
                ELSE (CHOOSE i \in bad : \A k \in bad : i <= k) - 1
       IN /\ raised' = IF bad = {} THEN NoRaise
                       ELSE Raise("create_batch", "NotFound")
          /\ ctr.batch < MaxBatches
          /\ ctr.job + n <= MaxJobs
          /\ db' = [j \in JobIds |->
                      IF j > ctr.job /\ j <= ctr.job + n
                      THEN Assessment(ctr.batch + 1, ref, dists[j - ctr.job])
                      ELSE db[j]]
          /\ ctr' = [ctr EXCEPT !.job = @ + n, !.batch = @ + 1]
          /\ UNCHANGED <<files, running_tasks, tasks, calls>>

create_batch_assessment(ref, dists) ==
  IF ref \notin Videos \/ \E d \in Range(dists) : d \notin Videos
  THEN /\ raised' = Raise("create_batch", "NotFound")
       /\ UNCHANGED <<db, files, running_tasks, tasks, calls, ctr>>
  ELSE /\ raised' = NoRaise
       /\ ctr.batch < MaxBatches
       /\ ctr.job + Len(dists) <= MaxJobs
       /\ db' = [j \in JobIds |->
                   IF j > ctr.job /\ j <= ctr.job + Len(dists)
                   THEN Assessment(ctr.batch + 1, ref, dists[j - ctr.job])
                   ELSE db[j]]
       /\ ctr' = [ctr EXCEPT !.job = @ + Len(dists), !.batch = @ + 1]
       /\ UNCHANGED <<files, running_tasks, tasks, calls>>

\* select ... where batch_id == b and status == PENDING order by id limit 1
pending_of(batch) ==
  {j \in JobIds : db[j].exists /\ db[j].batch_id = batch /\ db[j].status = PENDING}

first_pending(batch) ==
  CHOOSE j \in pending_of(batch) : \A k \in pending_of(batch) : j <= k

\* A request calls start_batch_assessment: the query for the first pending
\* job of the batch; start_assessment is called when the query has returned.
start_batch_assessment(batch) ==
  /\ raised' = NoRaise
  /\ ctr.api < MaxCalls
  /\ UNCHANGED <<db, files, running_tasks, tasks>>
  /\ IF pending_of(batch) = {}
     THEN UNCHANGED <<calls, ctr>>
     ELSE /\ calls' = calls \cup
                 {Call(NewCallId, "start", "batch", first_pending(batch), "check", 0)}
          /\ ctr' = [ctr EXCEPT !.api = @ + 1]

\* ---- _run_assessment -----------------------------------------------------

\* min(current_frame / total_frames * 100, 100), 0 when total_frames is 0
\* (in whole percents)
progress_of(current_frame) ==
  IF TotalFrames > 0 THEN Min((current_frame * 100) \div TotalFrames, 100) ELSE 0

\* The task runs: await session.get(Assessment, assessment_id); batch_id.
run_assessment_get(t) ==
  /\ raised' = NoRaise
  /\ tasks[t].pc = "created"
  /\ LET a == db[tasks[t].job]
     IN tasks' = IF ~a.exists
                 THEN [tasks EXCEPT ![t].pc = "finally"]
                 ELSE [tasks EXCEPT ![t].pc = "loop", ![t].batch_id = a.batch_id,
                                    ![t].status = a.status,
                                    ![t].progress = a.progress,
                                    ![t].current_frame = a.current_frame]
  /\ UNCHANGED <<db, files, running_tasks, calls, ctr>>

\* A progress event (the process reports frame n, beyond the last reported
\* one): current_frame and progress are set and committed.
run_assessment_progress(t, n) ==
  /\ raised' = NoRaise
  /\ tasks[t].pc = "loop"
  /\ n > tasks[t].last_reported_frame
  /\ LET j == tasks[t].job
         p == progress_of(n)
     IN /\ db' = [db EXCEPT
                    ![j].current_frame = IF n # tasks[t].current_frame THEN n ELSE @,
                    ![j].progress = IF p # tasks[t].progress THEN p ELSE @]
        /\ tasks' = [tasks EXCEPT ![t].current_frame = n, ![t].progress = p,
                                  ![t].last_reported_frame = n]
  /\ UNCHANGED <<files, running_tasks, calls, ctr>>

\* A variant of the step below that leaves the per-frame document for after
\* the commit; C29 tells it from the code.
run_assessment_complete_unwritten(t) ==
  /\ raised' = NoRaise
  /\ tasks[t].pc = "loop"
  /\ tasks' = [tasks EXCEPT ![t].pc = "commit"]
  /\ UNCHANGED <<db, files, running_tasks, calls, ctr>>

\* The complete event: the per-frame document is written.
run_assessment_complete(t) ==
  /\ raised' = NoRaise
  /\ tasks[t].pc = "loop"
  /\ files' = files \cup {tasks[t].job}
  /\ tasks' = [tasks EXCEPT ![t].pc = "commit"]
  /\ UNCHANGED <<db, running_tasks, calls, ctr>>

\* ... and the result is committed: scores, frame_data_path, status,
\* progress = 100, completed_at.
run_assessment_commit(t) ==
  /\ raised' = NoRaise
  /\ tasks[t].pc = "commit"
  /\ LET j == tasks[t].job
     IN db' = [db EXCEPT
                 ![j].scores = TRUE,
                 ![j].frame_data_path = TRUE,
                 ![j].status = IF tasks[t].status # COMPLETED THEN COMPLETED ELSE @,
                 ![j].progress = IF tasks[t].progress # 100 THEN 100 ELSE @,
                 ![j].completed_at = TRUE]
  /\ tasks' = [tasks EXCEPT ![t].pc = "finally", ![t].status = COMPLETED,
                            ![t].progress = 100]
  /\ UNCHANGED <<files, running_tasks, calls, ctr>>

\* except Exception: the adapter raised (probe, exit code, parsing); the
\* session's row is marked failed and committed.
run_assessment_except(t) ==
  /\ raised' = NoRaise
  /\ tasks[t].pc = "loop"
  /\ LET j == tasks[t].job
     IN db' = [db EXCEPT
                 ![j].status = IF tasks[t].status # FAILED THEN FAILED ELSE @,
                 ![j].error_message = TRUE]
  /\ tasks' = [tasks EXCEPT ![t].pc = "finally", ![t].status = FAILED]
  /\ UNCHANGED <<files, running_tasks, calls, ctr>>

\* finally: delete the table entry of this assessment id; with a batch_id go
\* on to the hook, otherwise the task ends.
run_assessment_finally(t) ==
  /\ raised' = NoRaise
  /\ tasks[t].pc = "finally"
  /\ running_tasks' = [running_tasks EXCEPT ![tasks[t].job] = 0]
  /\ tasks' = IF tasks[t].batch_id # 0
              THEN [tasks EXCEPT ![t].pc = "hook"]
              ELSE RemoveTask(tasks, t)
  /\ UNCHANGED <<db, files, calls, ctr>>

\* _trigger_next_batch_task: the query for the next pending job of the
\* batch; start_assessment is awaited when the query has returned.
trigger_next_batch_task(t) ==
  /\ raised' = NoRaise
  /\ tasks[t].pc = "hook"
  /\ IF pending_of(tasks[t].batch_id) = {}
     THEN /\ tasks' = RemoveTask(tasks, t)
          /\ UNCHANGED calls
     ELSE /\ tasks' = [tasks EXCEPT ![t].pc = "hook_start"]
          /\ calls' = calls \cup
                 {Call(NewCallId, "start", "hook", first_pending(tasks[t].batch_id), "check", t)}
  /\ UNCHANGED <<db, files, running_tasks, ctr>>

\* ---- the system ----------------------------------------------------------

\* The requests of this specification name videos that exist (a request
\* naming video 3 is refused by the create operations before any write).
RefInputs == {1}
DistInputs == {2}
DistLists == UNION {[1..n -> DistInputs] : n \in 1..MaxBatchSize}

\* Every step but a request's call of start_assessment.
Steps ==
  \/ \E ref \in RefInputs, dist \in DistInputs : create_assessment(ref, dist) /\ UNCHANGED io
  \/ \E ref \in RefInputs, dists \in DistLists : create_batch_assessment(ref, dists) /\ UNCHANGED io
  \/ \E c \in calls : start_assessment_check(c) /\ UNCHANGED io
  \/ \E c \in calls : start_assessment_get(c) /\ UNCHANGED io
  \/ \E c \in calls : start_assessment_commit(c) /\ UNCHANGED io
  \/ \E c \in calls : start_assessment_register(c) /\ UNCHANGED io
  \/ \E b \in 1..MaxBatches : start_batch_assessment(b) /\ UNCHANGED io
  \/ \E j \in JobIds : cancel_assessment(j) /\ UNCHANGED io
  \/ \E c \in calls : cancel_assessment_get(c) /\ UNCHANGED io
  \/ \E c \in calls, started \in BOOLEAN : cancel_assessment_signal(c, started) /\ UNCHANGED io
  \/ \E c \in calls : cancel_assessment_commit(c) /\ UNCHANGED io
  \/ \E t \in DOMAIN tasks : run_assessment_get(t) /\ UNCHANGED io
  \/ \E t \in DOMAIN tasks, n \in 0..MaxFrame : run_assessment_progress(t, n) /\ UNCHANGED io
  \/ \E t \in DOMAIN tasks : run_assessment_complete(t) /\ UNCHANGED io
  \/ \E t \in DOMAIN tasks : run_assessment_commit(t) /\ UNCHANGED io
  \/ \E t \in DOMAIN tasks : run_assessment_except(t) /\ UNCHANGED io
  \/ \E t \in DOMAIN tasks : run_assessment_finally(t) /\ UNCHANGED io
  \/ \E t \in DOMAIN tasks : trigger_next_batch_task(t) /\ UNCHANGED io

Next ==
  \/ \E j \in JobIds : ctr.api < MaxCalls /\ start_assessment(j) /\ UNCHANGED io
  \/ Steps

Spec == Init /\ [][Next]_vars

\* The batch alone with its neighbours: requests start existing jobs that
\* belong to no batch, so the jobs of a batch are started by
\* start_batch_assessment and by the hook only.
NextBatch ==
  \/ \E j \in JobIds : /\ ctr.api < MaxCalls
                        /\ db[j].exists /\ db[j].batch_id = 0
                        /\ start_assessment(j) /\ UNCHANGED io
  \/ Steps

SpecBatch == Init /\ [][NextBatch]_vars

\* One assessment that belongs to no batch, and requests that start it again
\* and again (one request more than in Spec).
NextSingle ==
  \/ \E ref \in RefInputs, dist \in DistInputs :
        ctr.job = 0 /\ create_assessment(ref, dist) /\ UNCHANGED io
  \/ ctr.api < MaxCalls + 1 /\ start_assessment(1) /\ UNCHANGED io
  \/ \E c \in calls : start_assessment_check(c) /\ UNCHANGED io
  \/ \E c \in calls : start_assessment_get(c) /\ UNCHANGED io
  \/ \E c \in calls : start_assessment_commit(c) /\ UNCHANGED io
  \/ \E c \in calls : start_assessment_register(c) /\ UNCHANGED io
  \/ \E t \in DOMAIN tasks : run_assessment_get(t) /\ UNCHANGED io
  \/ \E t \in DOMAIN tasks, n \in 0..MaxFrame : run_assessment_progress(t, n) /\ UNCHANGED io
  \/ \E t \in DOMAIN tasks : run_assessment_complete(t) /\ UNCHANGED io
  \/ \E t \in DOMAIN tasks : run_assessment_commit(t) /\ UNCHANGED io
  \/ \E t \in DOMAIN tasks : run_assessment_except(t) /\ UNCHANGED io
  \/ \E t \in DOMAIN tasks : run_assessment_finally(t) /\ UNCHANGED io

SpecSingle == Init /\ [][NextSingle]_vars

\* The two create operations alone, with requests that may name a video
\* that does not exist.
VideoIds == Videos \cup {3}
AnyDistLists == UNION {[1..n -> VideoIds] : n \in 1..MaxBatchSize}

NextCreate ==
  \/ \E ref \in VideoIds, dist \in VideoIds : create_assessment(ref, dist) /\ UNCHANGED io
  \/ \E ref \in VideoIds, dists \in AnyDistLists : create_batch_assessment(ref, dists) /\ UNCHANGED io

SpecCreate == Init /\ [][NextCreate]_vars

\* The service with nothing created and nothing running: the state the
\* computations below leave alone.
idle ==
  /\ db = [j \in JobIds |-> NoRow]
  /\ files = {}
  /\ running_tasks = [j \in JobIds |-> 0]
  /\ tasks = << >>
  /\ calls = {}
  /\ ctr = [job |-> 0, batch |-> 0, api |-> 0]
  /\ raised = NoRaise

\* ---- FFmpegService.assess_quality ----------------------------------------

\* A line of the process's stdout: frame=<n>, frame=<not a number>, or any
\* other line of the -progress output.
Lines ==
  [kind : {"frame"}, n : 0..MaxFrame] \cup {[kind |-> "bad", n |-> 0], [kind |-> "other", n |-> 0]}
Streams == UNION {[1..n -> Lines] : n \in 0..MaxLines}

\* The generator once the process has been started: the lines still to be
\* read, the loop's two counters, the events yielded so far, and where the
\* generator stands (reading, exhausted after the complete event, or left by
\* an exception).
Generator(lines) ==
  [pc |-> "read", rest |-> lines, current_frame |-> 0,
   last_reported_frame |-> -1, events |-> << >>]

progress_event(current_frame) ==
  [type |-> "progress", current_frame |-> current_frame,
   total_frames |-> TotalFrames, progress |-> progress_of(current_frame)]

complete_event == [type |-> "complete", current_frame |-> 0,
                   total_frames |-> 0, progress |-> 0]

\* One pass of the while loop on a line that was read.
assess_quality_readline ==
  /\ ret.pc = "read" /\ ret.rest # << >>
  /\ LET line == Head(ret.rest)
         g == [ret EXCEPT !.rest = Tail(@)]
     IN ret' = IF line.kind = "frame"
               THEN IF line.n # ret.last_reported_frame
                    THEN [g EXCEPT !.current_frame = line.n,
                                   !.last_reported_frame = line.n,
                                   !.events = Append(@, progress_event(line.n))]
                    ELSE [g EXCEPT !.current_frame = line.n]
               ELSE g
  /\ UNCHANGED <<service, arg>>

\* A variant of the step below that yields the complete event before it
\* looks at the return code; C15 tells it from the code.
assess_quality_eof_first ==
  /\ ret.pc = "read" /\ ret.rest = << >>
  /\ ret' = IF arg.returncode # 0 \/ ~arg.parses
            THEN [ret EXCEPT !.pc = "raised", !.events = Append(@, complete_event)]
            ELSE [ret EXCEPT !.pc = "done", !.events = Append(@, complete_event)]
  /\ UNCHANGED <<service, arg>>

\* readline returned no line: wait for the process, raise on a non-zero
\* return code, parse the log (which may raise), yield the complete event.
assess_quality_eof ==
  /\ ret.pc = "read" /\ ret.rest = << >>
  /\ ret' = IF arg.returncode # 0 THEN [ret EXCEPT !.pc = "raised"]
            ELSE IF ~arg.parses THEN [ret EXCEPT !.pc = "raised"]
            ELSE [ret EXCEPT !.pc = "done", !.events = Append(@, complete_event)]
  /\ UNCHANGED <<service, arg>>

InitAdapter ==
  /\ idle
  /\ arg \in [lines : Streams, returncode : {0, 1}, parses : BOOLEAN]
  /\ ret = Generator(arg.lines)

NextAdapter == assess_quality_readline \/ assess_quality_eof

SpecAdapter == InitAdapter /\ [][NextAdapter]_vars

\* ---- FFmpegService._parse_vmaf_json --------------------------------------

\* dict.get(key) of a key that is missing (or null): Python's None among
\* numbers.  Scores are in tenths.
Null == -1

\* A frame of the log: frameNum and the metrics map, a missing key read as
\* Null.  pooled_metrics is the tool's own vmaf mean, Null when the log has
\* none.
LogMetrics ==
  [vmaf : {Null, 900, 910}, float_ssim : {Null, 9},
   psnr : {Null, 400}, psnr_y : {Null, 400, 420}]
LogFrames ==
  UNION {{f \in [1..n -> [frameNum : 0..(MaxParsed - 1), metrics : LogMetrics]] :
            \A i \in 1..n : f[i].frameNum = i - 1} : n \in 0..MaxParsed}
Logs == [frames : LogFrames, pooled_vmaf_mean : {Null, 900, 905}]

\* A variant of scores_of that reads a missing metric as 0; C16 tells it
\* from the code.
RECURSIVE scores_of_zeroed(_, _)
scores_of_zeroed(frames, key) ==
  IF frames = << >> THEN << >>
  ELSE LET v == Head(frames).metrics[key]
       IN <<IF v # Null THEN v ELSE 0>> \o scores_of_zeroed(Tail(frames), key)

\* The list a metric's values are appended to: if v is not None: append(v)
RECURSIVE scores_of(_, _)
scores_of(frames, key) ==
  IF frames = << >> THEN << >>
  ELSE LET v == Head(frames).metrics[key]
       IN (IF v # Null THEN <<v>> ELSE << >>) \o scores_of(Tail(frames), key)

RECURSIVE sum(_)
sum(values) == IF values = << >> THEN 0 ELSE Head(values) + sum(Tail(values))

\* sum(values) / len(values) if values else 0, kept as the fraction
\* sum / n (0 / 1 when there are no values)
mean_or_zero(values) ==
  IF values # << >> THEN [sum |-> sum(values), n |-> Len(values)]
  ELSE [sum |-> 0, n |-> 1]

\* frame_data: one record per frame, in order
frame_record(frame) ==
  [frame_num |-> frame.frameNum,
   vmaf |-> frame.metrics["vmaf"],
   ssim |-> frame.metrics["float_ssim"],
   psnr |-> frame.metrics["psnr_y"]]

parse_vmaf_json(data) ==
  [vmaf_score |-> IF data.pooled_vmaf_mean # Null THEN data.pooled_vmaf_mean ELSE 0,
   ssim_score |-> mean_or_zero(scores_of(data.frames, "float_ssim")),
   psnr_score |-> mean_or_zero(scores_of(data.frames, "psnr_y")),
   frame_data |-> [i \in DOMAIN data.frames |-> frame_record(data.frames[i])]]

InitParser == idle /\ arg \in Logs /\ ret = Unset

NextParser ==
  /\ ret' = parse_vmaf_json(arg)
  /\ UNCHANGED <<service, arg>>

SpecParser == InitParser /\ [][NextParser]_vars

\* ---- AssessmentService.get_problem_frames --------------------------------

\* A stored frame list: the records _parse_vmaf_json wrote, of which the
\* operation reads vmaf.  An empty list also stands for the list that cannot
\* be read (get_frame_data returns None): both take the "not frame_data"
\* return.
StoredScores == {Null, 40, 60, 70, 80, 95}
StoredFrames ==
  UNION {{f \in [1..n -> [frame_num : 0..(MaxStored - 1), vmaf : StoredScores]] :
            \A i \in 1..n : f[i].frame_num = i - 1} : n \in 0..MaxStored}
Thresholds == {60, 70}
Limits == {1, 2, 10}

\* A variant of the filter that also keeps a frame scoring exactly the
\* threshold; C19 tells it from the code.
RECURSIVE below_threshold_inclusive(_, _)
below_threshold_inclusive(frame_data, threshold) ==
  IF frame_data = << >> THEN << >>
  ELSE LET f == Head(frame_data)
       IN (IF f.vmaf # Null /\ f.vmaf <= threshold THEN <<f>> ELSE << >>)
            \o below_threshold_inclusive(Tail(frame_data), threshold)

\* [f for f in frame_data if f.get("vmaf") is not None and f["vmaf"] < threshold]
RECURSIVE below_threshold(_, _)
below_threshold(frame_data, threshold) ==
  IF frame_data = << >> THEN << >>
  ELSE LET f == Head(frame_data)
       IN (IF f.vmaf # Null /\ f.vmaf < threshold THEN <<f>> ELSE << >>)
            \o below_threshold(Tail(frame_data), threshold)

\* list.sort(key = vmaf): stable, ascending
RECURSIVE insert_by_vmaf(_, _)
insert_by_vmaf(f, sorted_frames) ==
  IF sorted_frames = << >> THEN <<f>>
  ELSE IF Head(sorted_frames).vmaf <= f.vmaf
       THEN <<Head(sorted_frames)>> \o insert_by_vmaf(f, Tail(sorted_frames))
       ELSE <<f>> \o sorted_frames
RECURSIVE sort_by_vmaf(_)
sort_by_vmaf(frames) ==
  IF frames = << >> THEN << >>
  ELSE insert_by_vmaf(frames[Len(frames)], sort_by_vmaf(SubSeq(frames, 1, Len(frames) - 1)))

get_problem_frames(frame_data, threshold, limit) ==
  IF frame_data = << >> THEN << >>
  ELSE LET problem_frames == sort_by_vmaf(below_threshold(frame_data, threshold))
       IN SubSeq(problem_frames, 1, Min(limit, Len(problem_frames)))

InitProblemFrames ==
  /\ idle
  /\ arg \in [frame_data : StoredFrames, threshold : Thresholds, limit : Limits]
  /\ ret = Unset

\* the endpoint's response carries the list under "frames"
NextProblemFrames ==
  /\ ret' = [frames |-> get_problem_frames(arg.frame_data, arg.threshold, arg.limit)]
  /\ UNCHANGED <<service, arg>>

SpecProblemFrames == InitProblemFrames /\ [][NextProblemFrames]_vars

\* ---- AssessmentService.get_statistics ------------------------------------

\* Stored frame lists for the statistics: frame i scores
\* 1 + (step * i + first) % ScoreMod, and the first frame has no score when
\* gap is set.
ScoreMod == 7
SampleLists ==
  {[i \in 1..n |-> IF g /\ i = 1 THEN Null ELSE 1 + ((a * i + b) % ScoreMod)] :
     n \in 1..MaxSamples, a \in 0..(ScoreMod - 1), b \in 0..(ScoreMod - 1),
     g \in BOOLEAN}

\* [f["vmaf"] for f in frame_data if f.get("vmaf") is not None]
RECURSIVE present(_)
present(scores) ==
  IF scores = << >> THEN << >>
  ELSE (IF Head(scores) # Null THEN <<Head(scores)>> ELSE << >>) \o present(Tail(scores))

\* sorted(values)
RECURSIVE insert(_, _)
insert(v, sorted_values) ==
  IF sorted_values = << >> THEN <<v>>
  ELSE IF Head(sorted_values) <= v
       THEN <<Head(sorted_values)>> \o insert(v, Tail(sorted_values))
       ELSE <<v>> \o sorted_values
RECURSIVE sorted(_)
sorted(values) ==
  IF values = << >> THEN << >>
  ELSE insert(values[Len(values)], sorted(SubSeq(values, 1, Len(values) - 1)))

\* A variant of percentile_index that rounds up; C20 tells it from the code.
percentile_index_up(n, percent) ==
  (n * percent + 99) \div 100

\* int(n * 0.05) and int(n * 0.95): the binary64 product, truncated.  For
\* every n up to 2000000 the truncated product is the integer quotient of
\* n * percent by 100 (the product of n and the double nearest 0.95 rounds
\* to the integer when 95 n / 100 is one), which is how it is computed here.
percentile_index(n, percent) ==
  (n * percent) \div 100

IndexError == [raised |-> "IndexError"]

\* calc_stats: min, max, p5 and p95 of a non-empty list; a subscript past
\* the end of sorted_values raises IndexError
calc_stats(values) ==
  LET sorted_values == sorted(values)
      n == Len(sorted_values)
      i5 == percentile_index(n, 5)
      i95 == percentile_index(n, 95)
  IN IF i5 >= n \/ i95 >= n THEN IndexError
     ELSE [min |-> sorted_values[1], max |-> sorted_values[n],
           p5 |-> sorted_values[i5 + 1], p95 |-> sorted_values[i95 + 1]]

\* get_statistics of the VMAF column: None without a score, else calc_stats
get_statistics(scores) ==
  LET vmaf_values == present(scores)
  IN IF vmaf_values = << >> THEN None ELSE calc_stats(vmaf_values)

InitStatistics == idle /\ arg \in SampleLists /\ ret = Unset

NextStatistics ==
  /\ ret' = get_statistics(arg)
  /\ UNCHANGED <<service, arg>>

SpecStatistics == InitStatistics /\ [][NextStatistics]_vars

\* ---- FFmpegService._get_vmaf_model -------------------------------------

vmaf_model_path == "/usr/share/model/vmaf_v0.6.1.json"
vmaf_4k_model_path == "/usr/share/model/vmaf_4k_v0.6.1.json"

\* the dimensions get_video_info probes for a video
Widths == {1920, 3839, 3840, 4000}
Heights == {1000, 1080, 2159, 2160}
VideoInfo == [width : Widths, height : Heights]

\* A variant that wants both dimensions to reach 4K; C21 tells it from the
\* code.
get_vmaf_model_both(width, height) ==
  IF width >= 3840 /\ height >= 2160 THEN vmaf_4k_model_path ELSE vmaf_model_path

get_vmaf_model(width, height) ==
  IF width >= 3840 \/ height >= 2160 THEN vmaf_4k_model_path ELSE vmaf_model_path

\* the head of assess_quality: both videos are probed, the model is chosen
\* and the scale filter is set when the dimensions differ
InitModel ==
  /\ idle
  /\ arg \in [ref_info : VideoInfo, dist_info : VideoInfo]
  /\ ret = Unset

NextModel ==
  /\ ret' = [vmaf_model |-> get_vmaf_model(arg.ref_info.width, arg.ref_info.height),
             scaled |-> (arg.dist_info.width # arg.ref_info.width
                           \/ arg.dist_info.height # arg.ref_info.height)]
  /\ UNCHANGED <<service, arg>>

SpecModel == InitModel /\ [][NextModel]_vars

\* ---- batch_delete_assessments, clear_all_assessments ---------------------

\* The delete request being served, kept in ret: the ids still to look at,
\* the rows session.delete has marked (they are deleted by the commit), and
\* the counters of the response.  arg is the request.
MaxDeleted == 2     \* ids in one batch-delete request
IdLists ==
  {ids \in UNION {[1..n -> JobIds] : n \in 1..MaxDeleted} :
     \A i, k \in DOMAIN ids : i # k => ids[i] # ids[k]}

Deleting(op, pc, rest) ==
  [op |-> op, pc |-> pc, rest |-> rest, marked |-> {}, failed_ids |-> {},
   deleted_count |-> 0, running_count |-> 0]

\* A request calls batch-delete (one delete request is served at a time).
batch_delete_assessments(ids) ==
  /\ arg = Unset
  /\ arg' = [op |-> "batch-delete", assessment_ids |-> ids]
  /\ ret' = Deleting("batch-delete", "get", ids)
  /\ UNCHANGED service

\* One pass of the loop: await session.get, the two checks, session.delete.
batch_delete_get ==
  /\ ret # Unset /\ ret.op = "batch-delete" /\ ret.pc = "get" /\ ret.rest # << >>
  /\ LET id == Head(ret.rest)
         r == [ret EXCEPT !.rest = Tail(@)]
     IN ret' = IF ~db[id].exists \/ db[id].status = RUNNING
               THEN [r EXCEPT !.failed_ids = @ \cup {id}]
               ELSE [r EXCEPT !.marked = @ \cup {id}, !.deleted_count = @ + 1]
  /\ UNCHANGED <<service, arg>>

\* await session.commit(): the marked rows are deleted; the response.
batch_delete_commit ==
  /\ ret # Unset /\ ret.op = "batch-delete" /\ ret.pc = "get" /\ ret.rest = << >>
  /\ db' = [j \in JobIds |-> IF j \in ret.marked THEN NoRow ELSE db[j]]
  /\ ret' = [ret EXCEPT !.pc = "done"]
  /\ UNCHANGED <<files, running_tasks, tasks, calls, ctr, raised, arg>>

\* A request calls clear-all: select the rows whose status is not running,
\* and session.delete each.
clear_all_assessments ==
  /\ arg = Unset
  /\ arg' = [op |-> "clear-all", assessment_ids |-> << >>]
  /\ LET assessments == {j \in JobIds : db[j].exists /\ db[j].status # RUNNING}
     IN ret' = [Deleting("clear-all", "commit", << >>) EXCEPT
                  !.marked = assessments, !.deleted_count = Cardinality(assessments)]
  /\ UNCHANGED service

\* await session.commit()
clear_all_commit ==
  /\ ret # Unset /\ ret.op = "clear-all" /\ ret.pc = "commit"
  /\ db' = [j \in JobIds |-> IF j \in ret.marked THEN NoRow ELSE db[j]]
  /\ ret' = [ret EXCEPT !.pc = "count"]
  /\ UNCHANGED <<files, running_tasks, tasks, calls, ctr, raised, arg>>

\* select the rows whose status is running; the response.
clear_all_count ==
  /\ ret # Unset /\ ret.op = "clear-all" /\ ret.pc = "count"
  /\ ret' = [ret EXCEPT !.pc = "done",
                        !.running_count = Cardinality({j \in JobIds : db[j].exists /\ db[j].status = RUNNING})]
  /\ UNCHANGED <<service, arg>>

\* Jobs that belong to no batch are created and started while one delete
\* request is served.
NextDelete ==
  \/ \E ref \in RefInputs, dist \in DistInputs : create_assessment(ref, dist) /\ UNCHANGED io
  \/ \E j \in JobIds : ctr.api < MaxCalls /\ start_assessment(j) /\ UNCHANGED io
  \/ \E c \in calls : start_assessment_check(c) /\ UNCHANGED io
  \/ \E c \in calls : start_assessment_get(c) /\ UNCHANGED io
  \/ \E c \in calls : start_assessment_commit(c) /\ UNCHANGED io
  \/ \E c \in calls : start_assessment_register(c) /\ UNCHANGED io
  \/ \E ids \in IdLists : batch_delete_assessments(ids)
  \/ batch_delete_get
  \/ batch_delete_commit
  \/ clear_all_assessments
  \/ clear_all_commit
  \/ clear_all_count

SpecDelete == Init /\ [][NextDelete]_vars

\* ---- get_batch_status ----------------------------------------------------

\* The rows the query of get_batch_status returns (where batch_id == b, order
\* by id), each with the two columns the computation reads.  Progress is in
\* whole percents, the returned progress in hundredths of a percent.
Progresses == {0, 50, 100}
BatchRow == [status : TaskStatus, progress : Progresses]
BatchRows == UNION {[1..n -> BatchRow] : n \in 0..MaxRows}

\* sum(1 for a in assessments if a.status == status)
RECURSIVE count_status(_, _)
count_status(assessments, status) ==
  IF assessments = << >> THEN 0
  ELSE (IF Head(assessments).status = status THEN 1 ELSE 0)
       + count_status(Tail(assessments), status)

\* next((a for a in assessments if a.status == RUNNING), None), then
\* running_task.progress if running_task else 0
RECURSIVE running_progress(_)
running_progress(assessments) ==
  IF assessments = << >> THEN 0
  ELSE IF Head(assessments).status = RUNNING THEN Head(assessments).progress
  ELSE running_progress(Tail(assessments))

\* round(n / d, 2) in hundredths, n in whole units: the nearest hundredth,
\* the even one of two equally near.
round2(n, d) ==
  LET q == (100 * n) \div d
      r == (100 * n) % d
  IN IF 2 * r < d THEN q
     ELSE IF 2 * r > d THEN q + 1
     ELSE IF q % 2 = 0 THEN q ELSE q + 1

\* A variant of get_batch_status that counts a failed row as a finished one;
\* C14 tells it from the code.
get_batch_status_finished(assessments) ==
  IF assessments = << >> THEN None
  ELSE LET total_count == Len(assessments)
           completed_count == count_status(assessments, COMPLETED)
           failed_count == count_status(assessments, FAILED)
       IN [total_count |-> total_count,
           completed_count |-> completed_count,
           failed_count |-> failed_count,
           progress |-> round2((completed_count + failed_count) * 100
                                + running_progress(assessments), total_count)]

\* A variant of get_batch_status that adds the running row's progress as a
\* count of finished rows; C30 tells it from the code.
get_batch_status_unscaled(assessments) ==
  IF assessments = << >> THEN None
  ELSE LET total_count == Len(assessments)
           completed_count == count_status(assessments, COMPLETED)
           failed_count == count_status(assessments, FAILED)
       IN [total_count |-> total_count,
           completed_count |-> completed_count,
           failed_count |-> failed_count,
           progress |-> round2((completed_count + running_progress(assessments)) * 100,
                               total_count)]

\* (completed_count / total_count) * 100 + (running_progress / total_count)
\* is (completed_count * 100 + running_progress) / total_count.
get_batch_status(assessments) ==
  IF assessments = << >> THEN None
  ELSE LET total_count == Len(assessments)
           completed_count == count_status(assessments, COMPLETED)
           failed_count == count_status(assessments, FAILED)
       IN [total_count |-> total_count,
           completed_count |-> completed_count,
           failed_count |-> failed_count,
           progress |-> round2(completed_count * 100
                                + running_progress(assessments), total_count)]

InitBatchStatus == idle /\ arg \in BatchRows /\ ret = Unset

NextBatchStatus ==
  /\ ret' = get_batch_status(arg)
  /\ UNCHANGED <<service, arg>>

SpecBatchStatus == InitBatchStatus /\ [][NextBatchStatus]_vars

\* ---- what the rows and the table are, for the properties -----------------

Rows == {j \in JobIds : db[j].exists}
RunningJobs == {j \in Rows : db[j].status = RUNNING}
Members(batch) == {j \in Rows : db[j].batch_id = batch}
Batches == 1..MaxBatches
CallIds(cs) == {c.id : c \in cs}
\* call c leaves calls in this step (it raised, or returned)
Ends(c) == c \in calls /\ c.id \notin CallIds(calls')
\* call c goes on to pc in this step
Goes(c, pc) == c \in calls /\ [c EXCEPT !.pc = pc] \in calls'
\* a step of a drive task (of _run_assessment) of job j
DriveStep(j) ==
  \E t \in DOMAIN tasks :
    /\ tasks[t].job = j
    /\ tasks[t].pc \in {"created", "loop", "commit", "finally"}
    /\ calls' = calls
    /\ (t \notin DOMAIN tasks' \/ tasks'[t] # tasks[t])
Quiescent == calls = {} /\ DOMAIN tasks = {}

TypeOK ==
  /\ \A j \in JobIds : db[j].status \in TaskStatus /\ db[j].progress \in 0..100
  /\ \A j \in JobIds : running_tasks[j] \in Nat
  /\ \A c \in calls : c.op \in {"start", "cancel"}
  /\ ctr.job \in 0..MaxJobs /\ ctr.api \in 0..(MaxCalls + 1)

\* C1 (concurrency cap): the number of jobs whose persisted status is running
\* never exceeds max_concurrent.
C1_ConcurrencyCap == Cardinality(RunningJobs) <= max_concurrent

\* C2 (status lifecycle): the only status changes are pending -> running and
\* running -> completed | failed | cancelled.
C2_StatusLifecycle ==
  [][\A j \in Rows :
       db'[j].status # db[j].status =>
         \/ db[j].status = PENDING /\ db'[j].status = RUNNING
         \/ db[j].status = RUNNING /\ db'[j].status \in Terminal]_vars

\* C3 (cancellation race safety): a step of a job's drive taken while the job
\* is cancelled leaves its status cancelled and its progress and
\* current_frame unchanged.
C3_CancellationRaceSafety ==
  [][\A j \in Rows :
       db[j].status = CANCELLED /\ DriveStep(j) =>
         /\ db'[j].status = CANCELLED
         /\ db'[j].progress = db[j].progress
         /\ db'[j].current_frame = db[j].current_frame]_vars

\* C4 (score population): the aggregate scores of a job are non-null if and
\* only if its status is completed.
C4_ScorePopulation ==
  \A j \in Rows : db[j].scores <=> db[j].status = COMPLETED

\* C5 (monotonic progress): while a job is running its persisted progress
\* never decreases.
C5_MonotonicProgress ==
  [][\A j \in Rows :
       db[j].status = RUNNING /\ db'[j].status = RUNNING =>
         db'[j].progress >= db[j].progress]_vars

\* C6 (completed means 100): a completed job has progress exactly 100.
C6_CompletedMeans100 ==
  \A j \in Rows : db[j].status = COMPLETED => db[j].progress = 100

\* C7 (batch sequential execution): at most one job of a batch is running, and
\* a job of a batch enters running only when every earlier job of the batch
\* is terminal and every later one is still pending.
C7_BatchSequential ==
  /\ [](\A b \in Batches : Cardinality(Members(b) \cap RunningJobs) <= 1)
  /\ [][\A b \in Batches : \A k \in Members(b) :
          db[k].status # RUNNING /\ db'[k].status = RUNNING =>
            \A i \in Members(b) \ {k} :
              /\ i < k => db[i].status \in Terminal
              /\ i > k => db[i].status = PENDING]_vars

\* C8 (batch auto-advance): when nothing is left to run (no call suspended, no
\* task unfinished), a batch one of whose drives ended completed or failed has
\* no job left pending.
C8_BatchAutoAdvance ==
  Quiescent =>
    \A b \in Batches :
      (\E i \in Members(b) : db[i].status \in {COMPLETED, FAILED}) =>
        \A k \in Members(b) : db[k].status # PENDING

\* C9 (rejected start leaves no partial state): a call of start_assessment
\* is refused exactly when the table is full, the row is missing or the row
\* is running; the refusal, and the steps of the call before it, leave every
\* row, the table of running tasks and the written files as they were, and
\* no task is created.
C9_RejectedStartNoPartialState ==
  [][\A c \in calls : c.op = "start" =>
       /\ c.pc = "check" /\ c \notin calls' =>
            IF running_count >= max_concurrent
            THEN Ends(c) /\ raised' = Raise("start", "ConcurrencyLimitExceeded")
            ELSE Goes(c, "get")
       /\ c.pc = "get" /\ c \notin calls' /\ raised' # NoRaise =>
            IF ~db[c.job].exists
            THEN Ends(c) /\ raised' = Raise("start", "NotFound")
            ELSE IF db[c.job].status = RUNNING
            THEN Ends(c) /\ raised' = Raise("start", "InvalidState")
            ELSE FALSE
       /\ c.pc \in {"check", "get"} /\ c \notin calls' /\ raised' # NoRaise =>
            /\ db' = db
            /\ running_tasks' = running_tasks
            /\ files' = files
            /\ DOMAIN tasks' \subseteq DOMAIN tasks
            /\ \A t \in DOMAIN tasks' : tasks'[t] = tasks[t]]_vars

\* a call of start_assessment has just been refused at the limit while a row
\* is running and its task is in the table
C9_Witness ==
  /\ raised = Raise("start", "ConcurrencyLimitExceeded")
  /\ running_count >= max_concurrent
  /\ \E j \in Rows : db[j].status = RUNNING /\ running_tasks[j] # 0

\* C10 (cancel preconditions): cancel_assessment is refused with NotFound for
\* a missing row and with InvalidState for a row that is not running, and the
\* refusal changes nothing; for a running row it cancels the task in the
\* table, deletes the table entry and writes status cancelled.
C10_CancelPreconditions ==
  [][\A c \in calls : c.op = "cancel" /\ c \notin calls' =>
       /\ c.pc = "get" =>
            IF ~db[c.job].exists
            THEN Ends(c) /\ raised' = Raise("cancel", "NotFound")
                 /\ UNCHANGED <<db, files, running_tasks, tasks>>
            ELSE IF db[c.job].status # RUNNING
            THEN Ends(c) /\ raised' = Raise("cancel", "InvalidState")
                 /\ UNCHANGED <<db, files, running_tasks, tasks>>
            ELSE Goes(c, "signal") /\ raised' = NoRaise
                 /\ UNCHANGED <<db, files, running_tasks, tasks>>
       /\ c.pc = "signal" =>
            /\ Goes(c, "commit")
            /\ running_tasks'[c.job] = 0
            /\ \A j \in JobIds \ {c.job} : running_tasks'[j] = running_tasks[j]
            /\ LET t == running_tasks[c.job]
               IN t # 0 /\ ~done(t) =>
                    \/ t \notin DOMAIN tasks'
                    \/ tasks'[t].pc = "finally"
            /\ db' = db
       /\ c.pc = "commit" =>
            /\ Ends(c) /\ raised' = NoRaise
            /\ db'[c.job].status = CANCELLED
            /\ \A j \in JobIds \ {c.job} : db'[j] = db[j]]_vars

\* a cancel has gone through on a row whose task was in the table: the row is
\* cancelled, its table entry is gone, and its task, which last saw the row
\* running, has been thrown into its finally block
C10_Witness ==
  \E j \in Rows, t \in DOMAIN tasks :
    /\ db[j].status = CANCELLED
    /\ running_tasks[j] = 0
    /\ tasks[t].job = j /\ tasks[t].pc = "finally" /\ tasks[t].status = RUNNING
    /\ calls = {}

\* the except block of task t's _run_assessment runs in this step
Handles(t) ==
  /\ t \in DOMAIN tasks /\ tasks[t].pc = "loop"
  /\ t \in DOMAIN tasks' /\ tasks'[t].pc = "finally"
  /\ calls' = calls

\* C11 (failure path): when a drive's except block runs, the row is left
\* failed with an error message and its other columns as they were, and
\* nothing is raised to a caller; a task in its finally block writes no row;
\* and a row becomes failed in no other step.
C11_FailurePath ==
  [][/\ \A t \in DOMAIN tasks : Handles(t) =>
          LET j == tasks[t].job
          IN /\ db'[j].status = FAILED
             /\ db'[j].error_message
             /\ db'[j] = [db[j] EXCEPT !.status = FAILED, !.error_message = TRUE]
             /\ \A k \in JobIds \ {j} : db'[k] = db[k]
             /\ files' = files
             /\ raised' = NoRaise
     /\ \A t \in DOMAIN tasks :
          /\ tasks[t].pc \in {"finally", "hook"}
          /\ (t \notin DOMAIN tasks' \/ tasks'[t] # tasks[t])
          => db' = db /\ files' = files
     /\ \A j \in Rows :
          db[j].status # FAILED /\ db'[j].status = FAILED =>
            \E t \in DOMAIN tasks : tasks[t].job = j /\ Handles(t)]_vars

\* C12 (cancelled jobs carry no error): a cancelled row has a null
\* error_message and a failed row has a non-null one.
C12_CancelledNoError ==
  \A j \in Rows :
    /\ db[j].status = CANCELLED => ~db[j].error_message
    /\ db[j].status = FAILED => db[j].error_message

\* C13 (create_batch_assessment is all or nothing): a call that names a
\* missing reference or a missing distorted video raises and leaves every row
\* as it was; any other call adds exactly one pending row per distorted id, in
\* the order given, duplicates included, all with the same reference and the
\* same batch id, which no row carried before.
C13_CreateBatchAllOrNothing ==
  [][\A ref \in VideoIds, dists \in AnyDistLists :
       create_batch_assessment(ref, dists) =>
         IF ref \notin Videos \/ \E i \in DOMAIN dists : dists[i] \notin Videos
         THEN /\ raised' = Raise("create_batch", "NotFound")
              /\ db' = db
         ELSE /\ raised' = NoRaise
              /\ \E b \in Batches :
                   /\ \A j \in JobIds : db[j].batch_id # b
                   /\ \A i \in DOMAIN dists :
                        LET a == db'[ctr.job + i]
                        IN /\ ~db[ctr.job + i].exists /\ a.exists
                           /\ a.status = PENDING
                           /\ a.batch_id = b
                           /\ a.reference_video_id = ref
                           /\ a.distorted_video_id = dists[i]
                           /\ a.progress = 0 /\ ~a.scores /\ ~a.error_message
              /\ \A j \in JobIds :
                   j \notin {ctr.job + i : i \in DOMAIN dists} => db'[j] = db[j]]_vars

\* a batch of two rows for one distorted video named twice exists, and a
\* later create_batch_assessment naming a missing video has just raised
C13_Witness ==
  /\ raised = Raise("create_batch", "NotFound")
  /\ \E j \in JobIds \ {MaxJobs} :
       /\ db[j].exists /\ db[j + 1].exists
       /\ db[j].batch_id # 0 /\ db[j + 1].batch_id = db[j].batch_id
       /\ db[j + 1].distorted_video_id = db[j].distorted_video_id

\* C14 (batch progress formula): get_batch_status returns None for no rows,
\* and otherwise progress = (completed / total) * 100 + p / total to the
\* nearest hundredth, p being the progress of a running row and 0 when no row
\* is running; 4 rows with 1 completed and 1 running at 50 give 37.5.
C14_BatchProgressFormula ==
  ret # Unset =>
    IF arg = << >> THEN ret = None
    ELSE LET total == Len(arg)
             completed == Cardinality({i \in DOMAIN arg : arg[i].status = COMPLETED})
             running == {i \in DOMAIN arg : arg[i].status = RUNNING}
             ps == IF running = {} THEN {0} ELSE {arg[i].progress : i \in running}
         IN /\ ret # None
            /\ \E p \in ps, h \in 0..1 :
                 LET x == (100 * (completed * 100 + p)) \div total + h
                 IN /\ ret.progress = x
                    /\ 2 * x * total - 200 * (completed * 100 + p) \in (0 - total)..total
            /\ (completed = 1 /\ total = 4 /\ ps = {50}) => ret.progress = 3750

\* the status of 4 rows, 1 completed and 1 running at 50, has been computed
C14_Witness ==
  /\ arg = <<[status |-> COMPLETED, progress |-> 100],
             [status |-> RUNNING, progress |-> 50],
             [status |-> FAILED, progress |-> 50],
             [status |-> PENDING, progress |-> 0]>>
  /\ ret # Unset /\ ret # None
  /\ ret.progress = 3750

\* the events yielded so far are progress events, then at most one complete
\* event, which is the last
Ordered(events) ==
  \A i \in DOMAIN events :
    events[i].type = "complete" => i = Len(events)

\* C15 (adapter event sequence), as stated: a process that exits with code 0
\* gives progress events and then exactly one complete event, the last; one
\* that exits non-zero gives no complete event and an error; no progress
\* event follows the complete event.
C15_AdapterEventSequence_Stated ==
  /\ Ordered(ret.events)
  /\ ret.pc # "read" =>
       IF arg.returncode = 0
       THEN /\ ret.pc = "done"
            /\ ret.events # << >>
            /\ ret.events[Len(ret.events)].type = "complete"
       ELSE /\ ret.pc = "raised"
            /\ \A i \in DOMAIN ret.events : ret.events[i].type = "progress"

\* C15 (adapter event sequence), with the log taken into account: a process
\* that exits with code 0 and whose log parses gives progress events and then
\* exactly one complete event, the last; one that exits non-zero, or whose
\* log does not parse, gives no complete event and an error; no progress
\* event follows the complete event, and a progress event is yielded exactly
\* when a frame line differs from the last reported frame.
C15_AdapterEventSequence ==
  /\ Ordered(ret.events)
  /\ ret.pc # "read" =>
       IF arg.returncode = 0 /\ arg.parses
       THEN /\ ret.pc = "done"
            /\ ret.events # << >>
            /\ ret.events[Len(ret.events)].type = "complete"
       ELSE /\ ret.pc = "raised"
            /\ \A i \in DOMAIN ret.events : ret.events[i].type = "progress"
  /\ \A i \in DOMAIN ret.events \ {Len(ret.events)} :
       ret.events[i].type = "progress" /\ ret.events[i + 1].type = "progress"
         => ret.events[i].current_frame # ret.events[i + 1].current_frame

\* a stream that names frame 0 twice and then frame 1 has been read to its
\* end with return code 0: two progress events and the complete event
C15_Witness ==
  /\ arg.returncode = 0 /\ arg.parses
  /\ Len(arg.lines) = MaxLines
  /\ arg.lines[1] = arg.lines[2] /\ arg.lines[1].kind = "frame"
  /\ arg.lines[MaxLines].kind = "frame" /\ arg.lines[MaxLines] # arg.lines[1]
  /\ ret.pc = "done"
  /\ Len(ret.events) = MaxLines

\* the frames of the log that report a metric, and the sum of what they report
Reporting(key) == {i \in DOMAIN arg.frames : arg.frames[i].metrics[key] # Null}
RECURSIVE Total(_, _)
Total(key, frames) ==
  IF frames = {} THEN 0
  ELSE LET i == CHOOSE x \in frames : TRUE
       IN arg.frames[i].metrics[key] + Total(key, frames \ {i})

C17_VmafMeanOverPresentFrames ==
  ret # Unset /\ Reporting("vmaf") # {} =>
    ret.vmaf_score * Cardinality(Reporting("vmaf")) = Total("vmaf", Reporting("vmaf"))

\* C18 (per-frame PSNR is carried through): for a log whose frames each have
\* the entries vmaf, float_ssim and psnr, each per-frame record has those
\* three values and psnr_score is the mean of the frames' psnr entries.
C18_PsnrCarriedThrough ==
  (/\ ret # Unset
   /\ arg.frames # << >>
   /\ \A i \in DOMAIN arg.frames :
        /\ arg.frames[i].metrics["vmaf"] # Null
        /\ arg.frames[i].metrics["float_ssim"] # Null
        /\ arg.frames[i].metrics["psnr"] # Null)
  => /\ \A i \in DOMAIN arg.frames :
          /\ ret.frame_data[i].vmaf = arg.frames[i].metrics["vmaf"]
          /\ ret.frame_data[i].ssim = arg.frames[i].metrics["float_ssim"]
          /\ ret.frame_data[i].psnr = arg.frames[i].metrics["psnr"]
     /\ ret.psnr_score.sum * Len(arg.frames)
          = Total("psnr", DOMAIN arg.frames) * ret.psnr_score.n

\* the stored frames that qualify as problem frames
Qualifying ==
  {i \in DOMAIN arg.frame_data :
     arg.frame_data[i].vmaf # Null /\ arg.frame_data[i].vmaf < arg.threshold}

\* C19 (problem-frame selection): the returned frames are distinct stored
\* frames with a non-null VMAF strictly below the threshold, in ascending
\* order of VMAF, as many as qualify up to the limit, and none of them scores
\* higher than a qualifying frame that was cut off.
C19_ProblemFrameSelection ==
  ret # Unset =>
    LET Returned == {i \in Qualifying : \E j \in DOMAIN ret.frames : ret.frames[j] = arg.frame_data[i]}
    IN /\ \A j \in DOMAIN ret.frames : \E i \in Qualifying : ret.frames[j] = arg.frame_data[i]
       /\ \A j, k \in DOMAIN ret.frames : j < k => ret.frames[j].vmaf <= ret.frames[k].vmaf /\ ret.frames[j] # ret.frames[k]
       /\ Len(ret.frames) = Min(arg.limit, Cardinality(Qualifying))
       /\ \A i \in Returned, c \in Qualifying \ Returned :
            arg.frame_data[i].vmaf <= arg.frame_data[c].vmaf

\* scores [80, 60, 95, 40, 70] with threshold 70 and limit 10 gave [40, 60]
C19_Witness ==
  /\ ret # Unset
  /\ arg.threshold = 70 /\ arg.limit = 10
  /\ Len(arg.frame_data) = 5
  /\ [i \in 1..5 |-> arg.frame_data[i].vmaf] = <<80, 60, 95, 40, 70>>
  /\ ret.frames = <<[frame_num |-> 3, vmaf |-> 40], [frame_num |-> 1, vmaf |-> 60]>>

\* the scores the statistics are taken over
Samples == {i \in DOMAIN arg : arg[i] # Null}
\* v is the value at 0-based position k of the samples in ascending order
IsRanked(v, k) ==
  /\ Cardinality({i \in Samples : arg[i] < v}) <= k
  /\ k < Cardinality({i \in Samples : arg[i] <= v})

\* C20 (percentile indexing): with n >= 1 samples, P5 is the sample at
\* position floor(n * 5 / 100) of the ascending order and P95 the one at
\* position floor(n * 95 / 100), both positions are within 0..n-1 so that no
\* subscript is out of range, and for n = 20 the positions are 1 and 19, P95
\* being the maximum.
C20_PercentileIndexing ==
  ret # Unset /\ Samples # {} =>
    LET n == Cardinality(Samples)
    IN /\ ret # IndexError /\ ret # None
       /\ (n * 5) \div 100 \in 0..(n - 1)
       /\ (n * 95) \div 100 \in 0..(n - 1)
       /\ IsRanked(ret.p5, (n * 5) \div 100)
       /\ IsRanked(ret.p95, (n * 95) \div 100)
       /\ n = 20 => IsRanked(ret.p5, 1) /\ IsRanked(ret.p95, 19) /\ ret.p95 = ret.max

\* twenty samples, not in order and not all equal, have their statistics
C20_Witness ==
  /\ ret # Unset
  /\ Cardinality(Samples) = 20
  /\ arg[1] > arg[2]
  /\ ret.min <= ret.p5 /\ ret.p5 < ret.p95 /\ ret.p95 = ret.max

\* the model chosen for reference dimensions (w, h), whatever the distorted
\* video's dimensions
Selects(w, h, model) ==
  arg.ref_info = [width |-> w, height |-> h] => ret.vmaf_model = model

\* C21 (resolution-based model selection): the 4K model is chosen exactly
\* when the reference width is at least 3840 or the reference height at least
\* 2160, the standard model otherwise, whatever the distorted video's
\* dimensions; (1920,1080) and (3839,2159) give the standard model,
\* (3840,2160), (1920,2160) and (4000,1000) the 4K model.
C21_ModelSelection ==
  ret # Unset =>
    /\ ret.vmaf_model \in {vmaf_model_path, vmaf_4k_model_path}
    /\ ret.vmaf_model = vmaf_4k_model_path
         <=> (arg.ref_info.width >= 3840 \/ arg.ref_info.height >= 2160)
    /\ Selects(1920, 1080, vmaf_model_path)
    /\ Selects(3839, 2159, vmaf_model_path)
    /\ Selects(3840, 2160, vmaf_4k_model_path)
    /\ Selects(1920, 2160, vmaf_4k_model_path)
    /\ Selects(4000, 1000, vmaf_4k_model_path)

\* a wide, low reference with a standard distorted video got the 4K model
C21_Witness ==
  /\ ret # Unset
  /\ arg.ref_info = [width |-> 4000, height |-> 1000]
  /\ arg.dist_info = [width |-> 1920, height |-> 1080]
  /\ ret.vmaf_model = vmaf_4k_model_path

\* the calls of start_assessment made by start_batch_assessment and by the
\* start-next hook that have not committed yet
Triggered == {c \in calls : /\ c.op = "start" /\ c.via \in {"batch", "hook"}
                            /\ c.pc \in {"check", "get", "commit"}}

\* C22 (batch trigger is idempotent): a start made by start_batch_assessment
\* or by the start-next hook for a job that another invocation has already
\* taken out of pending is a no-op: it raises nothing, leaves the job's row
\* alone and creates no second drive task while the first is unfinished.
C22_BatchTriggerIdempotent ==
  [][\A c \in calls :
       /\ (c \in Triggered /\ db[c.job].status # PENDING /\ c \notin calls') =>
            /\ raised'.err = "none"
            /\ db'[c.job] = db[c.job]
       /\ (/\ c.op = "start" /\ c.via \in {"batch", "hook"} /\ c.pc = "register"
           /\ running_tasks'[c.job] # running_tasks[c.job]) =>
            (running_tasks[c.job] = 0 \/ done(running_tasks[c.job]))]_vars

\* the unfinished tasks that drive job j: created, or inside the try block
Drives(j) == {t \in DOMAIN tasks : tasks[t].job = j /\ tasks[t].pc \in {"created", "loop", "commit"}}

\* C23 (one drive task per job): at most one unfinished drive task exists for
\* any job id.
C23_OneDriveTaskPerJob ==
  \A j \in JobIds : Cardinality(Drives(j)) <= 1

\* the progress events the generator has yielded, in order
ProgressEvents == SelectSeq(ret.events, LAMBDA e : e.type = "progress")
\* the frame lines among the lines read so far
FrameLinesRead ==
  {i \in 1..(Len(arg.lines) - Len(ret.rest)) : arg.lines[i].kind = "frame"}

\* C24 (adapter progress ordering): for any sequence of lines the process
\* writes, the current_frame values of the progress events yielded are
\* non-decreasing, each event's progress is min(N / total_frames * 100, 100)
\* (0 when total_frames is 0), and only frame lines produce events.
C24_AdapterProgressOrdering ==
  /\ \A i, j \in DOMAIN ProgressEvents :
       i < j => ProgressEvents[i].current_frame <= ProgressEvents[j].current_frame
  /\ \A i \in DOMAIN ProgressEvents :
       ProgressEvents[i].progress =
         (IF TotalFrames > 0
          THEN Min((ProgressEvents[i].current_frame * 100) \div TotalFrames, 100)
          ELSE 0)
  /\ Len(ProgressEvents) <= Cardinality(FrameLinesRead)

\* C25 (no deletion while running): no step removes a job whose status is
\* running; a finished batch-delete has reported every id it did not remove
\* in failed_ids and removed the others, a finished clear-all has removed
\* every job it found not running.
C25_NoDeletionWhileRunning ==
  [][/\ \A j \in Rows : db[j].status = RUNNING => db'[j].exists
     /\ (ret # Unset /\ ret.pc # "done" /\ ret'.pc = "done" /\ ret.op = "batch-delete") =>
          \A j \in Range(arg.assessment_ids) :
            IF j \in ret'.failed_ids THEN db'[j] = db[j]
            ELSE db[j].exists /\ ~db'[j].exists
     /\ (ret # Unset /\ ret.pc = "commit" /\ ret'.pc = "count") =>
          \A j \in ret.marked : ~db'[j].exists]_vars

\* the start calls in progress for job j
Starting(j) == {c \in calls : c.op = "start" /\ c.job = j}

\* C26 (running jobs are tracked): while no start call for it is in
\* progress, a job whose status is running has an unfinished drive task
\* registered under its id in running_tasks; and the cleanup of a task never
\* removes the table entry of another task.
C26_RunningJobsTracked ==
  /\ [](\A j \in Rows :
          db[j].status = RUNNING /\ Starting(j) = {} =>
            /\ running_tasks[j] # 0
            /\ ~done(running_tasks[j])
            /\ tasks[running_tasks[j]].job = j)
  /\ [][\A t \in DOMAIN tasks :
          (tasks[t].pc = "finally" /\ (done(t)' \/ tasks'[t].pc = "hook")) =>
            \A j \in JobIds :
              running_tasks'[j] # running_tasks[j] => running_tasks[j] = t]_vars

\* C27 (concurrency slots are always released): a job whose task has ended
\* does not count toward the cap: the count is at most the number of
\* unfinished tasks, and while no task is unfinished the concurrency check of
\* a start never raises the concurrency-limit error.
C27_SlotsReleased ==
  /\ [](running_count <= Cardinality(DOMAIN tasks))
  /\ [][\A c \in calls :
          (c.op = "start" /\ c.pc = "check" /\ c \notin calls' /\ DOMAIN tasks = {}) =>
            /\ raised'.err # "ConcurrencyLimitExceeded"
            /\ [c EXCEPT !.pc = "get"] \in calls']_vars

\* a start has passed the concurrency check after the drive of a job had
\* ended and while another start was on its way
C27_Witness ==
  /\ DOMAIN tasks = {}
  /\ \E j \in Rows : db[j].status \in {COMPLETED, FAILED}
  /\ \E c \in calls : c.op = "start" /\ c.pc = "get"

\* C28 (cancel does not stall a batch): the task of a job that belongs to a
\* batch ends, cancelled or not, only through the start-next hook while the
\* batch still has a pending job.
C28_CancelDoesNotStallBatch ==
  [][\A t \in DOMAIN tasks :
       LET b == db[tasks[t].job].batch_id
       IN (b # 0 /\ pending_of(b) # {} /\ t \notin DOMAIN tasks') =>
            tasks[t].pc \in {"hook", "hook_start"}]_vars

\* C29 (frame data precedes completion): a completed job has a non-null
\* frame_data_path and its per-frame document has been written; a stored
\* frame_data_path always points at a written document; and frame_data_path
\* becomes non-null only in a step that leaves the job completed, so a job
\* that never completed has a null frame_data_path.
C29_FrameDataPrecedesCompletion ==
  /\ [](\A j \in Rows :
          /\ db[j].status = COMPLETED => db[j].frame_data_path
          /\ db[j].frame_data_path => j \in files)
  /\ [][\A j \in Rows :
          ~db[j].frame_data_path /\ db'[j].frame_data_path =>
            db'[j].status = COMPLETED /\ j \in files]_vars

\* a drive has completed a job while another job, never completed, is running
C29_Witness ==
  \E j, k \in Rows :
    /\ db[j].status = COMPLETED /\ db[j].frame_data_path /\ j \in files
    /\ db[k].status = RUNNING /\ ~db[k].frame_data_path

\* C30 (batch progress is bounded): for every non-empty list of member rows,
\* whatever their statuses and with progress values within 0..100, several
\* of them running or not, the overall progress get_batch_status returns is
\* within 0..100 (here in hundredths).
C30_BatchProgressBounded ==
  (ret # Unset /\ arg # << >>) =>
    /\ ret # None
    /\ ret.progress \in 0..10000

\* the status of three rows, two of them running at 100 and one completed,
\* has been computed: 66.67
C30_Witness ==
  /\ ret # Unset
  /\ Len(arg) = 3
  /\ arg[1] = [status |-> RUNNING, progress |-> 100]
  /\ arg[2] = [status |-> RUNNING, progress |-> 100]
  /\ arg[3].status = COMPLETED
  /\ ret.progress = 6667
====
